---- MODULE Spec2Model ----
(***************************************************************************)
(* Signal-timing tuning for a simulated 3x3 grid:                          *)
(*   bayesian_optimization.py  generate_tl_program, objective_function and *)
(*                             the optimisation driver that calls it;      *)
(*   final_evaluation.py       run_single_evaluation and the plan x        *)
(*                             scenario evaluation driver.                 *)
(* The traffic simulator and the optimiser are external: the simulator is  *)
(* modelled by what the drivers observe of it (the session, the answer of  *)
(* getMinExpectedNumber, the trip report left at temp_tripinfo.xml), the   *)
(* optimiser by the parameter sets it proposes.                            *)
(*                                                                         *)
(* Real numbers are exact rationals [n |-> numerator, d |-> denominator]   *)
(* with d > 0 (ns_green_ratio, mean waiting times); floating-point         *)
(* rounding is not modelled.                                               *)
(***************************************************************************)
EXTENDS Integers, Sequences, FiniteSets, TLC

VARIABLES
    prog,             \* the program that runs: "gen", "score", "opt" or "eval"
    pc,               \* the control position of that program
    env,              \* what the simulator does: [horizon, reports]
    cycle_length,     \* params[0] of the call under way
    ns_green_ratio,   \* params[1] of the call under way
    tlsFile,          \* content of temp_tls.add.xml (NoDoc before it is written)
    tripFile,         \* temp_tripinfo.xml: [content, fresh]; fresh: written in
                      \* the episode started last
    calls,            \* calls of the function under way that have returned
    scIdx,            \* position of the scenario loop (1-based)
    planIdx,          \* position of the plan loop (1-based)
    step,             \* the local variable step of the stepping loop
    sessions,         \* simulator sessions open (traci.start minus traci.close)
    simTime,          \* simulationStep calls made in the current session
    lastEmpty,        \* the last answer of getMinExpectedNumber() was 0
    scenario_scores,  \* the list scenario_scores of objective_function
    scenario_score,   \* the score of the report parsed last (or the exception)
    resilience_score, \* the value objective_function returned last
    results,          \* the list results of the evaluation driver
    pivot_df,         \* the pivoted table, or "none"
    trace             \* history: the calls made to the file system and simulator

vars == << prog, pc, env, cycle_length, ns_green_ratio, tlsFile, tripFile, calls,
           scIdx, planIdx, step, sessions, simTime, lastEmpty, scenario_scores,
           scenario_score, resilience_score, results, pivot_df, trace >>

---------------------------------------------------------------------------
(* Bounds of the model *)

\* cycle lengths 0 .. MaxCycle are given to generate_tl_program
MaxCycle == 121
\* ratios n/d with 1 <= d <= MaxDen are given to generate_tl_program
MaxDen == 10
\* trip records in a report given to the score extractors
MaxTrips == 3
\* calls of objective_function the optimiser makes (n_calls, 30 in the source)
MaxCalls == 2
\* generate_tl_program is called up to GenRepeats times on the same parameters
GenRepeats == 2
\* a short scenario has no vehicle left after MaxDrain simulation steps
MaxDrain == 2

---------------------------------------------------------------------------
(* Program constants *)

MAX_SIM_STEPS == 3600
\* the settling period of objective_function's early break (step > 100)
SETTLE_STEPS == 100
\* duration of each yellow phase
YELLOW == 3
\* the search space: Integer(low=20, high=120), Real(low=0.3, high=0.7)
CYCLE_LOW == 20
CYCLE_HIGH == 120

Rat(n, d) == [n |-> n, d |-> d]

InSearchSpace(c, r) ==
    /\ CYCLE_LOW <= c /\ c <= CYCLE_HIGH
    /\ 3 * r.d <= 10 * r.n /\ 10 * r.n <= 7 * r.d

---------------------------------------------------------------------------
(* generate_tl_program *)

\* int(x) of Python for x = a / b, b > 0: rounds toward zero
\* (variant: rounding down, as math.floor would)
IntFloorMutant(a, b) == a \div b
IntOf(a, b) == IF a >= 0 THEN a \div b ELSE -((-a) \div b)

\* (variant: one yellow phase reserved instead of two)
GreenTimeMutant(c) == c - 3
GreenTime(c) == c - 6

NsGreenTime(c, r) == IntOf(GreenTime(c) * r.n, r.d)

EwGreenTime(c, r) == GreenTime(c) - NsGreenTime(c, r)

\* the tl_id J_i_j of the nine intersections
Intersections == { <<i, j>> : i \in 0..2, j \in 0..2 }

Phase(dur, st) == [duration |-> dur, state |-> st]

\* the four phase elements of one tlLogic, in document order
TlLogic(c, r) ==
    << Phase(NsGreenTime(c, r), "GGggrrrrGGggrrrr"),
       Phase(YELLOW, "yyyyrrrryyyyrrrr"),
       Phase(EwGreenTime(c, r), "rrrrGGggrrrrGGgg"),
       Phase(YELLOW, "rrrryyyyrrrryyyy") >>

\* the document written to file_path
GenerateTlProgram(c, r) == [tl \in Intersections |-> TlLogic(c, r)]

---------------------------------------------------------------------------
(* The trip report and the score extractors *)

\* the waitingTime attribute of one tripinfo element: a number, no such
\* attribute (trip.get gives None), or text that float() does not parse
Num(w) == [k |-> "num", v |-> w]
NoAttr == [k |-> "none", v |-> 0]
BadText == [k |-> "text", v |-> 0]

\* the file at temp_tripinfo.xml: not there, not well-formed XML, or a
\* document whose tripinfo elements carry the attributes in trips
Absent == [kind |-> "absent", trips |-> << >>]
Malformed == [kind |-> "malformed", trips |-> << >>]
Xml(ts) == [kind |-> "xml", trips |-> ts]

RECURSIVE Gcd(_, _)
Gcd(a, b) == IF b = 0 THEN a ELSE Gcd(b, a % b)

\* the rational n / d in lowest terms (n >= 0, d > 0)
Norm(n, d) == LET g == Gcd(n, d) IN IF g = 0 THEN Rat(0, 1) ELSE Rat(n \div g, d \div g)

RECURSIVE SumOf(_)
SumOf(ws) == IF ws = << >> THEN 0 ELSE Head(ws).v + SumOf(Tail(ws))

\* np.mean of a non-empty list of numbers
NpMean(ws) == Norm(SumOf(ws), Len(ws))

Value(q) == [kind |-> "value", v |-> q, exc |-> "none"]
Raise(e) == [kind |-> "raise", v |-> Rat(0, 1), exc |-> e]

\* the first record float() fails on, 0 if there is none
RECURSIVE FirstBad(_, _)
FirstBad(ts, i) ==
    IF i > Len(ts) THEN 0
    ELSE IF ts[i].k # "num" THEN i
    ELSE FirstBad(ts, i + 1)

\* [float(trip.get('waitingTime')) for trip in root.findall('tripinfo')]:
\* float(None) raises TypeError, float of other text raises ValueError;
\* neither is caught by except (FileNotFoundError, ET.ParseError)
FloatError(a) == IF a.k = "none" THEN "TypeError" ELSE "ValueError"

\* the penalty of objective_function
PenaltyOpt == Rat(MAX_SIM_STEPS * 10, 1)
\* the penalty of run_single_evaluation
PenaltyEval == Rat(MAX_SIM_STEPS, 1)

\* lines 91-101 of objective_function: the score of one scenario
ScoreOpt(f) ==
    IF f.kind = "absent" \/ f.kind = "malformed" THEN Value(PenaltyOpt)
    ELSE LET b == FirstBad(f.trips, 1) IN
         IF b # 0 THEN Raise(FloatError(f.trips[b]))
         ELSE IF f.trips = << >> THEN Value(PenaltyOpt)
         ELSE Value(NpMean(f.trips))

\* lines 45-51 of run_single_evaluation
ScoreEval(f) ==
    IF f.kind = "absent" \/ f.kind = "malformed" THEN Value(PenaltyEval)
    ELSE LET b == FirstBad(f.trips, 1) IN
         IF b # 0 THEN Raise(FloatError(f.trips[b]))
         ELSE IF f.trips # << >> THEN Value(NpMean(f.trips))
         ELSE Value(PenaltyEval)

\* a < b for rationals
Less(a, b) == a.n * b.d < b.n * a.d

\* max(xs) of Python for a non-empty list: the first of the largest elements
RECURSIVE MaxFrom(_, _, _)
MaxFrom(xs, i, best) ==
    IF i > Len(xs) THEN best
    ELSE MaxFrom(xs, i + 1, IF Less(best, xs[i]) THEN xs[i] ELSE best)

\* (variant: the last score instead of the largest)
PyMaxMutant(xs) == xs[Len(xs)]
PyMax(xs) == MaxFrom(xs, 2, xs[1])

---------------------------------------------------------------------------
(* The registries and the simulator command line *)

\* SCENARIOS of bayesian_optimization.py; the values of SCENARIOS in
\* final_evaluation.py, in insertion order
SCENARIOS == << "grid_normal.sumocfg", "grid_highstress.sumocfg", "grid_disrupted.sumocfg" >>
SCENARIO_NAMES == << "Normal", "High-Stress", "Disrupted" >>

\* PLANS of final_evaluation.py in insertion order; "None" stands for None
PLAN_NAMES == << "Default-SUMO", "Optimized-for-Normal", "Optimized-for-Resilience" >>
PLAN_FILES == << "None", "plan_normal_day.add.xml", "plan_resilient.add.xml" >>

TL_PROGRAM_FILE == "temp_tls.add.xml"

\* sumo_cmd of objective_function
SumoCmdOpt(scenario_cfg, tl_program_file) ==
    << "sumo", "-c", scenario_cfg, "-a", tl_program_file,
       "--tripinfo-output", "temp_tripinfo.xml", "--no-warnings", "true" >>

\* sumo_cmd of run_single_evaluation: -a only for a plan file that is not None
\* (variant: -a appended without the test of line 34)
SumoCmdEvalMutant(scenario_cfg, plan_file) ==
    << "sumo", "-c", scenario_cfg, "--tripinfo-output", "temp_tripinfo.xml",
       "--no-warnings", "true", "-a", plan_file >>
SumoCmdEval(scenario_cfg, plan_file) ==
    << "sumo", "-c", scenario_cfg, "--tripinfo-output", "temp_tripinfo.xml",
       "--no-warnings", "true" >>
    \o (IF plan_file # "None" THEN << "-a", plan_file >> ELSE << >>)

\* the value that follows flag in a command line, "" if the flag is not there
FlagValue(cmd, flag) ==
    IF \E i \in 1..(Len(cmd) - 1) : cmd[i] = flag
    THEN cmd[(CHOOSE i \in 1..(Len(cmd) - 1) : cmd[i] = flag) + 1]
    ELSE ""

---------------------------------------------------------------------------
(* The simulator as the drivers see it *)

\* at traci.close the simulator has left a report at temp_tripinfo.xml, or
\* has written nothing (it crashed before opening its output)
NoWrite == [kind |-> "nowrite", trips |-> << >>]

\* reports of the episodes of an optimisation run
OptReports ==
    { NoWrite, Malformed, Xml(<< >>), Xml(<< Num(10) >>), Xml(<< Num(50) >>),
      Xml(<< Num(10), Num(30) >>), Xml(<< Num(10), NoAttr >>) }

\* reports of the episodes of an evaluation run
EvalReports == { NoWrite, Xml(<< >>), Xml(<< Num(10), Num(30) >>), Xml(<< BadText >>) }

\* a scenario that stays busy for the whole step budget
LongReports == { Xml(<< Num(10) >>) }

\* [horizon, reports]: from simulation step horizon on no vehicle is expected
\* any more; before it the answer of getMinExpectedNumber() is open (the
\* network may be empty for a while and fill again)
ShortEnv(reports) == [horizon |-> MaxDrain, reports |-> reports]
LongEnv == [horizon |-> MAX_SIM_STEPS + 1, reports |-> LongReports]
NoEnv == [horizon |-> 0, reports |-> {}]

\* getMinExpectedNumber() == 0 after t simulation steps
EmptyAnswers(t) == IF t >= env.horizon THEN {TRUE} ELSE BOOLEAN

\* the parameter sets the optimiser proposes
Candidates == { [c |-> 60, r |-> Rat(1, 2)], [c |-> 21, r |-> Rat(3, 10)] }

NoDoc == [tl \in Intersections |-> << >>]
NoScore == [kind |-> "none", v |-> Rat(0, 1), exc |-> "none"]
NoTable == [cell \in {} |-> Rat(0, 1)]

Event(e, cmd) == [ev |-> e, cmd |-> cmd]

\* the report file after the session ended with outcome o
ReportAfter(o) ==
    IF o.kind = "nowrite" THEN tripFile ELSE [content |-> o, fresh |-> TRUE]

---------------------------------------------------------------------------
(* Initial states *)

Fresh(p, l, e) ==
    /\ prog = p
    /\ pc = l
    /\ env = e
    /\ cycle_length = 0
    /\ ns_green_ratio = Rat(0, 1)
    /\ tlsFile = NoDoc
    /\ tripFile = [content |-> Absent, fresh |-> FALSE]
    /\ calls = 0
    /\ scIdx = 1
    /\ planIdx = 1
    /\ step = 0
    /\ sessions = 0
    /\ simTime = 0
    /\ lastEmpty = FALSE
    /\ scenario_scores = << >>
    /\ scenario_score = NoScore
    /\ resilience_score = NoScore
    /\ results = << >>
    /\ pivot_df = NoTable
    /\ trace = << >>

\* either driver is started in a directory without temporary files
Init ==
    \/ \E e \in { ShortEnv(OptReports), LongEnv } : Fresh("opt", "idle", e)
    \/ \E e \in { ShortEnv(EvalReports), LongEnv } : Fresh("eval", "ev_start", e)

---------------------------------------------------------------------------
(* bayesian_optimization.py: the optimisation driver *)

\* gp_minimize calls objective_wrapper with the next parameter set
Propose ==
    /\ prog = "opt" /\ pc = "idle" /\ calls < MaxCalls
    /\ \E p \in Candidates :
          /\ cycle_length' = p.c
          /\ ns_green_ratio' = p.r
    /\ pc' = "generate"
    /\ trace' = << >>
    /\ UNCHANGED << prog, env, tlsFile, tripFile, calls, scIdx, planIdx, step,
                    sessions, simTime, lastEmpty, scenario_scores, scenario_score,
                    resilience_score, results, pivot_df >>

\* objective_function, lines 60-66
Generate ==
    /\ prog = "opt" /\ pc = "generate"
    /\ tlsFile' = GenerateTlProgram(cycle_length, ns_green_ratio)
    /\ scenario_scores' = << >>
    /\ scIdx' = 1
    /\ pc' = "start"
    /\ trace' = Append(trace, Event("write", << TL_PROGRAM_FILE >>))
    /\ UNCHANGED << prog, env, cycle_length, ns_green_ratio, tripFile, calls,
                    planIdx, step, sessions, simTime, lastEmpty, scenario_score,
                    resilience_score, results, pivot_df >>

\* traci.start opens a session, traci.close ends it
TraciStart(n) == n + 1
\* (variant: the session is not closed)
TraciCloseMutant(n) == n
TraciClose(n) == n - 1

\* lines 69-80: the next scenario's command line, traci.start, step = 0
Start ==
    /\ prog = "opt" /\ pc = "start"
    /\ sessions' = TraciStart(sessions)
    /\ simTime' = 0
    /\ lastEmpty' = FALSE
    /\ step' = 0
    /\ tripFile' = [tripFile EXCEPT !.fresh = FALSE]
    /\ trace' = Append(trace, Event("start", SumoCmdOpt(SCENARIOS[scIdx], TL_PROGRAM_FILE)))
    /\ pc' = "loop"
    /\ UNCHANGED << prog, env, cycle_length, ns_green_ratio, tlsFile, calls, scIdx,
                    planIdx, scenario_scores, scenario_score, resilience_score,
                    results, pivot_df >>

\* the early break of line 84
BreakEarly(empty, s) == empty /\ s > SETTLE_STEPS

\* lines 81-86: one pass of the while loop, or its end
OptLoop ==
    /\ prog = "opt" /\ pc = "loop"
    /\ IF step < MAX_SIM_STEPS
       THEN \E empty \in EmptyAnswers(simTime + 1) :
               /\ simTime' = simTime + 1
               /\ lastEmpty' = empty
               /\ IF BreakEarly(empty, step)
                  THEN pc' = "close" /\ step' = step
                  ELSE pc' = "loop" /\ step' = step + 1
       ELSE pc' = "close" /\ UNCHANGED << simTime, lastEmpty, step >>
    /\ UNCHANGED << prog, env, cycle_length, ns_green_ratio, tlsFile, tripFile,
                    calls, scIdx, planIdx, sessions, scenario_scores, scenario_score,
                    resilience_score, results, pivot_df, trace >>

\* line 88: traci.close; the simulator has ended and left its report (or
\* none). step is not read again before line 80 resets it.
Close ==
    /\ prog = "opt" /\ pc = "close"
    /\ sessions' = TraciClose(sessions)
    /\ \E o \in env.reports : tripFile' = ReportAfter(o)
    /\ step' = 0 /\ simTime' = 0 /\ lastEmpty' = FALSE
    /\ trace' = Append(trace, Event("close", << >>))
    /\ pc' = "parse"
    /\ UNCHANGED << prog, env, cycle_length, ns_green_ratio, tlsFile, calls, scIdx,
                    planIdx, scenario_scores, scenario_score, resilience_score,
                    results, pivot_df >>

\* the for loop of line 69: the scenario after the one that scored s
\* (variant: a scenario that scored the penalty is run again)
NextScenarioMutant(s) == IF s = PenaltyOpt THEN scIdx ELSE scIdx + 1
NextScenario(s) == scIdx + 1

\* lines 90-103: parse the report, score it, append the score
Parse ==
    /\ prog = "opt" /\ pc = "parse"
    /\ LET r == ScoreOpt(tripFile.content) IN
          /\ scenario_score' = r
          /\ IF r.kind = "raise"
             THEN pc' = "raised" /\ UNCHANGED << scenario_scores, scIdx >>
             ELSE /\ scenario_scores' = Append(scenario_scores, r.v)
                  /\ scIdx' = NextScenario(r.v)
                  /\ pc' = IF scIdx' > Len(SCENARIOS) THEN "reduce" ELSE "start"
    /\ trace' = Append(trace, Event("parse", << "temp_tripinfo.xml" >>))
    /\ UNCHANGED << prog, env, cycle_length, ns_green_ratio, tlsFile, tripFile,
                    calls, planIdx, step, sessions, simTime, lastEmpty,
                    resilience_score, results, pivot_df >>

\* lines 105-108: the resilience score is returned to the optimiser
Return ==
    /\ prog = "opt" /\ pc = "reduce"
    /\ resilience_score' = Value(PyMax(scenario_scores))
    /\ calls' = calls + 1
    /\ pc' = "idle"
    /\ UNCHANGED << prog, env, cycle_length, ns_green_ratio, tlsFile, tripFile,
                    scIdx, planIdx, step, sessions, simTime, lastEmpty,
                    scenario_scores, scenario_score, results, pivot_df, trace >>

\* gp_minimize has made its calls (the report, the charts and the best plan
\* saved to plan_resilient.add.xml, lines 136-158, touch none of the
\* variables)
Finish ==
    /\ prog = "opt" /\ pc = "idle" /\ calls = MaxCalls
    /\ pc' = "done"
    /\ UNCHANGED << prog, env, cycle_length, ns_green_ratio, tlsFile, tripFile,
                    calls, scIdx, planIdx, step, sessions, simTime, lastEmpty,
                    scenario_scores, scenario_score, resilience_score, results,
                    pivot_df, trace >>

---------------------------------------------------------------------------
(* final_evaluation.py: the evaluation driver *)

\* lines 62-64 and 31-38: the next (plan, scenario) pair, traci.start, step = 0
EvalStart ==
    /\ prog = "eval" /\ pc = "ev_start"
    /\ sessions' = TraciStart(sessions)
    /\ simTime' = 0
    /\ lastEmpty' = FALSE
    /\ step' = 0
    /\ tripFile' = [tripFile EXCEPT !.fresh = FALSE]
    /\ trace' = Append(trace, Event("start", SumoCmdEval(SCENARIOS[scIdx], PLAN_FILES[planIdx])))
    /\ pc' = "ev_loop"
    /\ UNCHANGED << prog, env, cycle_length, ns_green_ratio, tlsFile, calls, scIdx,
                    planIdx, scenario_scores, scenario_score, resilience_score,
                    results, pivot_df >>

\* the while condition of line 39
KeepStepping(empty, s) == ~empty /\ s < MAX_SIM_STEPS

\* lines 39-41: the while condition, and one simulation step if it holds
EvalLoop ==
    /\ prog = "eval" /\ pc = "ev_loop"
    /\ \E empty \in EmptyAnswers(simTime) :
          /\ lastEmpty' = empty
          /\ IF KeepStepping(empty, step)
             THEN /\ simTime' = simTime + 1
                  /\ step' = step + 1
                  /\ pc' = "ev_loop"
             ELSE pc' = "ev_close" /\ UNCHANGED << simTime, step >>
    /\ UNCHANGED << prog, env, cycle_length, ns_green_ratio, tlsFile, tripFile,
                    calls, scIdx, planIdx, sessions, scenario_scores, scenario_score,
                    resilience_score, results, pivot_df, trace >>

\* line 42: traci.close; step is not read again
EvalClose ==
    /\ prog = "eval" /\ pc = "ev_close"
    /\ sessions' = TraciClose(sessions)
    /\ \E o \in env.reports : tripFile' = ReportAfter(o)
    /\ step' = 0 /\ simTime' = 0 /\ lastEmpty' = FALSE
    /\ trace' = Append(trace, Event("close", << >>))
    /\ pc' = "ev_parse"
    /\ UNCHANGED << prog, env, cycle_length, ns_green_ratio, tlsFile, calls, scIdx,
                    planIdx, scenario_scores, scenario_score, resilience_score,
                    results, pivot_df >>

\* the row appended at lines 65-69
Row(plan, scenario, wait) == [Plan |-> plan, Scenario |-> scenario, Wait |-> wait]

\* lines 62-63: the pair after (planIdx, scIdx); the scenario loop is the inner
\* (variant: the scenario loop is not restarted for the next plan)
NextPairMutant == IF scIdx < Len(SCENARIOS) THEN << planIdx, scIdx + 1 >>
                  ELSE << planIdx + 1, scIdx >>
NextPair == IF scIdx < Len(SCENARIOS) THEN << planIdx, scIdx + 1 >>
            ELSE << planIdx + 1, 1 >>

\* lines 44-51 and 64-69: score the report and append the row
EvalParse ==
    /\ prog = "eval" /\ pc = "ev_parse"
    /\ LET r == ScoreEval(tripFile.content) IN
          /\ scenario_score' = r
          /\ IF r.kind = "raise"
             THEN pc' = "raised" /\ UNCHANGED << results, planIdx, scIdx >>
             ELSE /\ results' = Append(results,
                                  Row(PLAN_NAMES[planIdx], SCENARIO_NAMES[scIdx], r.v))
                  /\ planIdx' = NextPair[1]
                  /\ scIdx' = NextPair[2]
                  /\ pc' = IF planIdx' > Len(PLAN_NAMES) \/ scIdx' > Len(SCENARIOS)
                           THEN "pivot" ELSE "ev_start"
    /\ trace' = Append(trace, Event("parse", << "temp_tripinfo.xml" >>))
    /\ UNCHANGED << prog, env, cycle_length, ns_green_ratio, tlsFile, tripFile,
                    calls, step, sessions, simTime, lastEmpty, scenario_scores,
                    resilience_score, pivot_df >>

\* results_df.pivot(index='Scenario', columns='Plan', values=...): one cell
\* per (Scenario, Plan) pair of the rows; pandas raises ValueError when two
\* rows share a pair
PivotKeys(rows) == { << rows[i].Scenario, rows[i].Plan >> : i \in DOMAIN rows }
HasDuplicates(rows) ==
    \E i, j \in DOMAIN rows :
        i # j /\ rows[i].Scenario = rows[j].Scenario /\ rows[i].Plan = rows[j].Plan
PivotOf(rows) ==
    [ cell \in PivotKeys(rows) |->
        rows[CHOOSE i \in DOMAIN rows : << rows[i].Scenario, rows[i].Plan >> = cell].Wait ]

\* lines 72-78
Pivot ==
    /\ prog = "eval" /\ pc = "pivot"
    /\ IF HasDuplicates(results)
       THEN pc' = "raised" /\ UNCHANGED pivot_df
       ELSE pc' = "done" /\ pivot_df' = PivotOf(results)
    /\ UNCHANGED << prog, env, cycle_length, ns_green_ratio, tlsFile, tripFile,
                    calls, scIdx, planIdx, step, sessions, simTime, lastEmpty,
                    scenario_scores, scenario_score, resilience_score, results,
                    trace >>

Next ==
    \/ Propose
    \/ Generate
    \/ Start
    \/ OptLoop
    \/ Close
    \/ Parse
    \/ Return
    \/ Finish
    \/ EvalStart
    \/ EvalLoop
    \/ EvalClose
    \/ EvalParse
    \/ Pivot

Spec == Init /\ [][Next]_vars

---------------------------------------------------------------------------
(* generate_tl_program on its own, on any parameters *)

\* the ratios n/d given to generate_tl_program: below 0, in [0, 1] and above 1
Ratios == { Rat(n, d) : n \in (-1)..(MaxDen + 1), d \in 1..MaxDen }

InitGen ==
    \E c \in 0..MaxCycle, r \in Ratios :
        /\ prog = "gen" /\ pc = "generate" /\ env = NoEnv
        /\ cycle_length = c
        /\ ns_green_ratio = r
        /\ tlsFile = NoDoc
        /\ tripFile = [content |-> Absent, fresh |-> FALSE]
        /\ calls = 0 /\ scIdx = 1 /\ planIdx = 1 /\ step = 0 /\ sessions = 0
        /\ simTime = 0 /\ lastEmpty = FALSE /\ scenario_scores = << >>
        /\ scenario_score = NoScore /\ resilience_score = NoScore
        /\ results = << >> /\ pivot_df = NoTable /\ trace = << >>

\* generate_tl_program(cycle_length, ns_green_ratio) writes temp_tls.add.xml
GenCall ==
    /\ prog = "gen" /\ pc = "generate" /\ calls < GenRepeats
    /\ tlsFile' = GenerateTlProgram(cycle_length, ns_green_ratio)
    /\ calls' = calls + 1
    /\ trace' = Append(trace, Event("write", << TL_PROGRAM_FILE >>))
    /\ UNCHANGED << prog, pc, env, cycle_length, ns_green_ratio, tripFile, scIdx,
                    planIdx, step, sessions, simTime, lastEmpty, scenario_scores,
                    scenario_score, resilience_score, results, pivot_df >>

NextGen == GenCall

SpecGen == InitGen /\ [][NextGen]_vars

---------------------------------------------------------------------------
(* The score extractor of objective_function on its own, on any report *)

\* the waitingTime attributes of the reports given to the extractor
Attrs == { Num(0), Num(10), Num(50), NoAttr, BadText }

RECURSIVE SeqsUpTo(_, _)
SeqsUpTo(S, n) ==
    IF n = 0 THEN { << >> }
    ELSE LET shorter == SeqsUpTo(S, n - 1) IN
         shorter \cup { Append(q, x) : q \in shorter, x \in S }

AnyReport == { Absent, Malformed } \cup { Xml(ts) : ts \in SeqsUpTo(Attrs, MaxTrips) }

InitScore ==
    \E f \in AnyReport :
        /\ prog = "score" /\ pc = "parse" /\ env = NoEnv
        /\ cycle_length = 0 /\ ns_green_ratio = Rat(0, 1)
        /\ tlsFile = NoDoc
        /\ tripFile = [content |-> f, fresh |-> TRUE]
        /\ calls = 0 /\ scIdx = 1 /\ planIdx = 1 /\ step = 0 /\ sessions = 0
        /\ simTime = 0 /\ lastEmpty = FALSE /\ scenario_scores = << >>
        /\ scenario_score = NoScore /\ resilience_score = NoScore
        /\ results = << >> /\ pivot_df = NoTable /\ trace = << >>

\* lines 91-101 applied to the report
ScoreCall ==
    /\ prog = "score" /\ pc = "parse"
    /\ scenario_score' = ScoreOpt(tripFile.content)
    /\ pc' = IF scenario_score'.kind = "raise" THEN "raised" ELSE "scored"
    /\ UNCHANGED << prog, env, cycle_length, ns_green_ratio, tlsFile, tripFile,
                    calls, scIdx, planIdx, step, sessions, simTime, lastEmpty,
                    scenario_scores, resilience_score, results, pivot_df, trace >>

NextScore == ScoreCall

SpecScore == InitScore /\ [][NextScore]_vars

---------------------------------------------------------------------------
(* Properties *)

IsStart(e) == e.ev = "start"
IsClose(e) == e.ev = "close"
Starts(tr) == SelectSeq(tr, IsStart)
Closes(tr) == SelectSeq(tr, IsClose)
Last(tr) == tr[Len(tr)]
IsPrefix(a, b) == Len(a) <= Len(b) /\ \A i \in 1..Len(a) : a[i] = b[i]
Durations(ph) == [i \in DOMAIN ph |-> ph[i].duration]
States(ph) == [i \in DOMAIN ph |-> ph[i].state]
PhaseOrder == << "GGggrrrrGGggrrrr", "yyyyrrrryyyyrrrr", "rrrrGGggrrrrGGgg", "rrrryyyyrrrryyyy" >>
Generated == prog = "gen" /\ calls > 0

\* C1: for every cycle_length in [20,120] and ns_green_ratio in [0.3,0.7] the
\* plan written by generate_tl_program has, at every intersection, four
\* phases whose durations sum to cycle_length, NS-green + EW-green + 6 =
\* cycle_length, and both greens non-negative integers.
C1_GreenSplit ==
    (Generated /\ InSearchSpace(cycle_length, ns_green_ratio)) =>
        \A tl \in Intersections :
            LET d == Durations(tlsFile[tl]) IN
            /\ Len(d) = 4
            /\ d[1] + d[2] + d[3] + d[4] = cycle_length
            /\ d[1] + d[3] + 6 = cycle_length
            /\ d[1] \in Nat /\ d[3] \in Nat

\* a plan generated at the low corner of the search space: 20 s, ratio 0.3
C1_Witness ==
    /\ Generated /\ InSearchSpace(cycle_length, ns_green_ratio)
    /\ cycle_length = 20 /\ ns_green_ratio = Rat(3, 10)
    /\ Durations(tlsFile[<< 2, 2 >>]) = << 4, 3, 10, 3 >>

\* the product (cycle_length - 6) * ns_green_ratio rounded down, and rounded up
FloorOfProduct == ((cycle_length - 6) * ns_green_ratio.n) \div ns_green_ratio.d
CeilOfProduct == -((-((cycle_length - 6) * ns_green_ratio.n)) \div ns_green_ratio.d)

\* nine intersections J_i_j, each with the four phases in the fixed order and
\* NS-green ns
PlanWith(ns) ==
    /\ DOMAIN tlsFile = { << i, j >> : i \in 0..2, j \in 0..2 }
    /\ Cardinality(DOMAIN tlsFile) = 9
    /\ \A tl \in DOMAIN tlsFile :
          /\ States(tlsFile[tl]) = PhaseOrder
          /\ Durations(tlsFile[tl]) = << ns, 3, (cycle_length - 6) - ns, 3 >>

\* C7 as stated: for every cycle_length and ns_green_ratio NS-green is
\* floor((cycle_length - 6) * ns_green_ratio).
C7_FloorForEveryInput == Generated => PlanWith(FloorOfProduct)

\* C7 (amended): for every cycle_length and ns_green_ratio the plan has nine
\* intersections J_i_j with the phases NS-green, NS-yellow, EW-green,
\* EW-yellow of durations [ns, 3, (cycle_length - 6) - ns, 3], where ns is
\* (cycle_length - 6) * ns_green_ratio rounded toward zero: its floor when the
\* product is not negative (all of the search space), its ceiling when it is
\* negative. (60, 0.5) gives [27, 3, 27, 3], (21, 0.3) gives 4 and 11, and a
\* second generation with the same parameters writes the same durations.
C7_RoundsTowardZero ==
    Generated =>
        /\ PlanWith(IF (cycle_length - 6) * ns_green_ratio.n >= 0
                    THEN FloorOfProduct ELSE CeilOfProduct)
        /\ (cycle_length = 60 /\ ns_green_ratio = Rat(1, 2)) =>
               Durations(tlsFile[<< 0, 0 >>]) = << 27, 3, 27, 3 >>
        /\ (cycle_length = 21 /\ ns_green_ratio = Rat(3, 10)) =>
               Durations(tlsFile[<< 0, 0 >>]) = << 4, 3, 11, 3 >>

\* (21, 0.3) generated twice: NS-green 4, EW-green 11 at every intersection
C7_Witness ==
    /\ prog = "gen" /\ calls = 2
    /\ cycle_length = 21 /\ ns_green_ratio = Rat(3, 10)
    /\ \A tl \in Intersections : Durations(tlsFile[tl]) = << 4, 3, 11, 3 >>

\* the waitingTime values of a report all of whose records carry a number
RECURSIVE WaitSum(_)
WaitSum(ts) == IF ts = << >> THEN 0 ELSE Head(ts).v + WaitSum(Tail(ts))

\* q is the arithmetic mean of the waitingTime values of ts
IsMeanOf(q, ts) == q.d > 0 /\ q.n * Len(ts) = WaitSum(ts) * q.d

\* C2: the score extractor of objective_function returns MAX_SIM_STEPS * 10
\* exactly when the report is absent, malformed, or well-formed without trip
\* records, returns the mean of the waitingTime values otherwise, and raises
\* no error whatever the report holds.
C2_PenaltyOrMeanNeverRaises ==
    (prog = "score" /\ pc # "parse") =>
        LET f == tripFile.content IN
        /\ scenario_score.kind = "value"
        /\ IF f.kind = "absent" \/ f.kind = "malformed" \/ f.trips = << >>
           THEN scenario_score.v = Rat(36000, 1)
           ELSE IsMeanOf(scenario_score.v, f.trips)

\* the mean waiting times the reports of the run can give
ReportMeans ==
    { NpMean(f.trips) : f \in { g \in env.reports : /\ g.kind = "xml"
                                                     /\ g.trips # << >>
                                                     /\ FirstBad(g.trips, 1) = 0 } }

\* C3: objective_function returns the maximum of the per-scenario scores of
\* the fixed scenario set (one score per scenario, each a mean waiting time
\* or the penalty): an element of the list that no element exceeds; scores
\* [10, 50, 20] give 50.
C3_ResilienceIsMax ==
    (prog = "opt" /\ calls > 0 /\ pc \in { "idle", "done" }) =>
        /\ Len(scenario_scores) = 3
        /\ resilience_score.kind = "value"
        /\ \E i \in DOMAIN scenario_scores : scenario_scores[i] = resilience_score.v
        /\ \A i \in DOMAIN scenario_scores :
              /\ ~Less(resilience_score.v, scenario_scores[i])
              /\ scenario_scores[i] \in ReportMeans \cup { Rat(36000, 1) }
        /\ scenario_scores = << Rat(10, 1), Rat(50, 1), Rat(20, 1) >> =>
               resilience_score.v = Rat(50, 1)

\* a call that returned 50 for the scenario scores [10, 50, 20]
C3_Witness ==
    /\ prog = "opt" /\ calls > 0 /\ pc = "idle"
    /\ scenario_scores = << Rat(10, 1), Rat(50, 1), Rat(20, 1) >>
    /\ resilience_score = Value(Rat(50, 1))

\* the stepping loop of an episode has ended and the session is still open
LoopEnded == pc \in { "close", "ev_close" }

\* C4: in every episode of either driver at most MAX_SIM_STEPS simulation
\* steps are made, and the loop ends before the budget only when the
\* simulator reported no expected vehicle and the settling period has passed
\* (so never at step 0).
C4_BudgetAndSettling ==
    LoopEnded =>
        /\ simTime <= MAX_SIM_STEPS
        /\ step <= MAX_SIM_STEPS
        /\ step < MAX_SIM_STEPS => (lastEmpty /\ step > SETTLE_STEPS)

\* C5: at most one simulator session is open at any time; the session of an
\* episode is closed before its report is parsed, before the next session is
\* started and before the driver finishes or objective_function returns.
C5_OneSessionAtATime ==
    (prog \in { "opt", "eval" }) =>
        /\ sessions \in { 0, 1 }
        /\ sessions = Len(Starts(trace)) - Len(Closes(trace))
        /\ (sessions = 1) <=> (pc \in { "loop", "close", "ev_loop", "ev_close" })
        /\ pc \in { "start", "ev_start", "parse", "ev_parse", "reduce", "pivot",
                    "idle", "done", "raised" } => sessions = 0

\* the second session of a run, open alone after its step budget ran out
C5_Witness ==
    /\ LoopEnded /\ step = MAX_SIM_STEPS /\ ~lastEmpty
    /\ sessions = 1 /\ Len(Starts(trace)) = 2 /\ Len(Closes(trace)) = 1

\* q is a non-negative number
NonNegative(q) == q.d > 0 /\ q.n >= 0

\* the start events of the trace launched with scenario cfg and plan file
\* (no -a flag for the plan "None")
LaunchesOf(cfg, file) ==
    { i \in DOMAIN trace :
        /\ trace[i].ev = "start"
        /\ FlagValue(trace[i].cmd, "-c") = cfg
        /\ FlagValue(trace[i].cmd, "-a") = (IF file = "None" THEN "" ELSE file) }

\* C6: the evaluation driver runs one episode per (plan, scenario) pair of
\* the 3 plans and 3 scenarios, and its table has 9 cells keyed by
\* (scenario, plan), 3 rows (one per scenario), each cell a non-negative mean
\* waiting time or the penalty of run_single_evaluation.
C6_NineCells ==
    (prog = "eval" /\ pc = "done") =>
        /\ Cardinality(DOMAIN pivot_df) = 9
        /\ DOMAIN pivot_df =
              { << sc, pl >> : sc \in { "Normal", "High-Stress", "Disrupted" },
                               pl \in { "Default-SUMO", "Optimized-for-Normal",
                                        "Optimized-for-Resilience" } }
        /\ Cardinality({ cell[1] : cell \in DOMAIN pivot_df }) = 3
        /\ \A cell \in DOMAIN pivot_df :
              /\ NonNegative(pivot_df[cell])
              /\ pivot_df[cell] \in ReportMeans \cup { Rat(3600, 1) }
        /\ Len(Starts(trace)) = 9
        /\ \A p \in 1..3, sc \in 1..3 :
              Cardinality(LaunchesOf(SCENARIOS[sc], PLAN_FILES[p])) = 1

\* a finished evaluation whose table holds a penalty cell and a mean cell
C6_Witness ==
    /\ prog = "eval" /\ pc = "done"
    /\ pivot_df[<< "Normal", "Default-SUMO" >>] = Rat(3600, 1)
    /\ pivot_df[<< "Disrupted", "Optimized-for-Resilience" >>] = Rat(20, 1)

\* C8: an episode is launched with -a exactly when a plan file is given: the
\* evaluation driver launches the plan None without the flag and any other
\* plan with its own file; objective_function launches every episode with
\* temp_tls.add.xml, which holds the plan of the parameters under evaluation.
C8_OverrideIffPlanFile ==
    /\ (prog = "eval" /\ pc \in { "ev_loop", "ev_close" }) =>
          LET cmd == Last(trace).cmd IN
          /\ Last(trace).ev = "start"
          /\ (PLAN_FILES[planIdx] = "None") <=> (\A i \in DOMAIN cmd : cmd[i] # "-a")
          /\ PLAN_FILES[planIdx] # "None" => FlagValue(cmd, "-a") = PLAN_FILES[planIdx]
          /\ FlagValue(cmd, "-c") = SCENARIOS[scIdx]
    /\ (prog = "opt" /\ pc \in { "loop", "close" }) =>
          LET cmd == Last(trace).cmd IN
          /\ Last(trace).ev = "start"
          /\ FlagValue(cmd, "-a") = "temp_tls.add.xml"
          /\ FlagValue(cmd, "-c") = SCENARIOS[scIdx]
          /\ \A tl \in Intersections :
               /\ Len(tlsFile[tl]) = 4
               /\ tlsFile[tl][1].duration =
                     ((cycle_length - 6) * ns_green_ratio.n) \div ns_green_ratio.d
               /\ tlsFile[tl][1].duration + tlsFile[tl][3].duration + 6 = cycle_length

\* the plan Default-SUMO launched without -a
C8_Witness ==
    /\ prog = "eval" /\ pc = "ev_loop" /\ PLAN_FILES[planIdx] = "None"
    /\ Last(trace).ev = "start" /\ FlagValue(Last(trace).cmd, "-a") = ""
    /\ Len(Last(trace).cmd) = 7

\* what an event is: its kind and, for a launch, the scenario
Shape(e) == << e.ev, FlagValue(e.cmd, "-c") >>
ShapeOf(tr) == [i \in DOMAIN tr |-> Shape(tr[i])]
CallShape ==
    << << "write", "" >>,
       << "start", "grid_normal.sumocfg" >>, << "close", "" >>, << "parse", "" >>,
       << "start", "grid_highstress.sumocfg" >>, << "close", "" >>, << "parse", "" >>,
       << "start", "grid_disrupted.sumocfg" >>, << "close", "" >>, << "parse", "" >> >>

\* C9: one call of objective_function writes the plan file once, before the
\* first episode, and does not rewrite it; it then runs one episode per
\* scenario in list order, each followed by one parse of the report before
\* the next starts; no episode is run again, whatever its score.
C9_OneEpisodePerScenario ==
    (prog = "opt") =>
        /\ IsPrefix(ShapeOf(trace), CallShape)
        /\ pc \in { "reduce", "done" } \/ (pc = "idle" /\ calls > 0) =>
              ShapeOf(trace) = CallShape
        /\ (trace # << >>) =>
              /\ trace[1] = Event("write", << "temp_tls.add.xml" >>)
              /\ tlsFile = GenerateTlProgram(cycle_length, ns_green_ratio)
              /\ Len(scenario_scores) =
                    Cardinality({ i \in DOMAIN trace : trace[i].ev = "parse" })
                    - (IF pc = "raised" THEN 1 ELSE 0)

\* a call that returned after its first episode scored the penalty
C9_Witness ==
    /\ prog = "opt" /\ pc = "idle" /\ calls > 0
    /\ scenario_scores[1] = Rat(36000, 1)
    /\ ShapeOf(trace) = CallShape

\* C10: an episode in which the simulator wrote no report scores the penalty
\* of its driver, also when an earlier episode left a report at
\* temp_tripinfo.xml.
C10_NoOutputScoresPenalty ==
    (trace # << >> /\ Last(trace).ev = "parse" /\ ~tripFile.fresh) =>
        scenario_score = Value(IF prog = "opt" THEN Rat(36000, 1) ELSE Rat(3600, 1))

====
